---------------------------- MODULE Spec2Model ----------------------------
(***************************************************************************)
(* A model of the call audit engine of the lsa-scraper repository:         *)
(*   - the outcome classifier of vapi_caller.py (VapiCaller._analyze_call, *)
(*     _classify_response, _grok_classify, _fallback_classify),            *)
(*   - the run controllers vapi_caller.run_audit and overnight_caller.main *)
(*     with their periodic saves,                                          *)
(*   - nightline.caller.AuditCaller.run_audit_batch, which feeds run_audit *)
(*     from the leads table.                                               *)
(*   - nightline.caller.AuditCaller.make_audit_call, which records one     *)
(*     call in the call_audits table.                                      *)
(* Python strings are TLA+ strings; Len, \o and SubSeq act on them         *)
(* character by character.                                                 *)
(***************************************************************************)
EXTENDS Integers, Sequences, FiniteSets, TLC

(***************************************************************************)
(* The state.                                                              *)
(***************************************************************************)
\* the classification of one fetched call
VARIABLES
    call,        \* the provider's record of the ended call
    cpc,         \* "idle", "fetched", "tier2" (reasoning request out), "done";
                 \* in overnight_caller: "night_fetched", "night_done"
    cur_transcript,  \* transcript_text of _analyze_call
    cur_end_reason,  \* end_reason of _analyze_call
    grok,        \* what the reasoning API did, once asked
    verdict,     \* what _classify_response came to
    night        \* what analyze_call of overnight_caller came to

\* the disclaimer removal, applied to a transcript and to its own output
VARIABLES
    spc,          \* "idle", "text", "once", "twice"
    strip_text,   \* the transcript
    strip_once,   \* cleaned: the removal applied to the lower-cased transcript
    strip_twice   \* the removal applied to cleaned

\* a run of a run controller
VARIABLES
    ctl,        \* "idle", "vapi" (run_audit) or "overnight" (main)
    source,     \* "file" (phone list) or "db" (leads table, run_audit_batch)
    only_24h,   \* --24-only / only_24_7
    limit,      \* --limit
    input,      \* the phones of the phone list file, or of the rows of the leads table
    db_status,  \* Lead.status of each row of the leads table
    oracle,     \* how calls end: "any", or the one way every call of the run ends
    rpc,        \* "start", "call", "autosave", "delay", "final", "done"
    halted,     \* the process ended before the run controller returned
    leads,      \* the leads of the run, after filter and limit
    idx,        \* i of the loop, from 1
    results,    \* results
    stats,      \* stats of run_audit
    saved,      \* the files written by this run: one snapshot per save
    dialed,     \* the phones make_call was called with in this run
    prior,      \* the phones with a result in the files of earlier runs
    runs        \* runs started so far

\* one pass of a run controller over its targets, each make_call followed
\* request by request
VARIABLES
    prog,           \* "idle", "vapi" (run_audit) or "overnight" (main)
    targets,        \* the phones of the leads of the run
    d_pc,           \* "dispatch", "waiting", "record", "final", "done";
                    \* "hung": blocked in a request; "crashed": ended by an exception
    d_idx,          \* i of the loop, from 1
    posted,         \* i of every call request submitted to the provider
    dispatch_resp,  \* what the provider did with the last call request
    elapsed,        \* seconds since the wait for the call of target i began
    poll_interval,  \* poll_interval of _wait_for_completion
    last_poll,      \* what the last status check of the wait met
    cur,            \* what make_call returned for target i
    d_results,      \* results
    d_stats,        \* stats of run_audit
    slept,          \* i of every inter-call delay taken
    d_saved         \* the files written

\* single audit calls on rows of the leads table (nightline call <id>)
VARIABLES
    a_pc,          \* "idle", "ready"; after make_audit_call: "returned", "raised"
    lead_status,   \* Lead.status of each row of the leads table
    call_audits,   \* the committed rows of the call_audits table
    audit_calls,   \* the id of the lead of every make_audit_call so far
    audit_result   \* what make_call returned to the last make_audit_call

classifyVars == << call, cpc, cur_transcript, cur_end_reason, grok, verdict, night >>

stripVars == << spc, strip_text, strip_once, strip_twice >>

runVars ==
    << ctl, source, only_24h, limit, input, db_status, oracle, rpc, leads, idx,
       results, stats, saved, dialed, prior, runs, halted >>

dialVars ==
    << prog, targets, d_pc, d_idx, posted, dispatch_resp, elapsed, poll_interval,
       last_poll, cur, d_results, d_stats, slept, d_saved >>

auditVars == << a_pc, lead_status, call_audits, audit_calls, audit_result >>

vars == << classifyVars, stripVars, runVars, dialVars, auditVars >>

(***************************************************************************)
(* Python's str operations, as the classifier uses them.                   *)
(***************************************************************************)
Char(s, i) == SubSeq(s, i, i)

\* str.startswith(p)
StartsWith(s, p) == Len(s) >= Len(p) /\ SubSeq(s, 1, Len(p)) = p

\* sub in s, for a non-empty sub
Contains(s, sub) ==
    \E i \in 1..(Len(s) - Len(sub) + 1) : SubSeq(s, i, i + Len(sub) - 1) = sub

UpperAlphabet == "ABCDEFGHIJKLMNOPQRSTUVWXYZ"
LowerAlphabet == "abcdefghijklmnopqrstuvwxyz"

ToLower ==
    [c \in { Char(UpperAlphabet, k) : k \in 1..26 } |->
        Char(LowerAlphabet, CHOOSE k \in 1..26 : Char(UpperAlphabet, k) = c)]

LowerChar(c) == IF c \in DOMAIN ToLower THEN ToLower[c] ELSE c

RECURSIVE Lower(_)
\* str.lower()
Lower(s) ==
    IF Len(s) = 0 THEN ""
    ELSE IF Len(s) = 1 THEN LowerChar(s)
    ELSE LET half == Len(s) \div 2
         IN  Lower(SubSeq(s, 1, half)) \o Lower(SubSeq(s, half + 1, Len(s)))

Whitespace == {" ", "\n", "\t"}

Ink(s) == { i \in 1..Len(s) : Char(s, i) \notin Whitespace }

RECURSIVE FirstInk(_, _)
\* the first place from i on that holds no whitespace
FirstInk(s, i) ==
    IF i >= Len(s) \/ Char(s, i) \notin Whitespace THEN i ELSE FirstInk(s, i + 1)

RECURSIVE LastInk(_, _)
\* the last place up to i that holds no whitespace
LastInk(s, i) ==
    IF i <= 1 \/ Char(s, i) \notin Whitespace THEN i ELSE LastInk(s, i - 1)

\* str.strip()
Strip(s) ==
    IF Ink(s) = {} THEN ""
    ELSE SubSeq(s, FirstInk(s, 1), LastInk(s, Len(s)))

\* the places where sub occurs in s
Occurrences(s, sub) ==
    { i \in 1..(Len(s) - Len(sub) + 1) : SubSeq(s, i, i + Len(sub) - 1) = sub }

RECURSIVE Remove(_, _)
\* str.replace(old, ""): the non-overlapping occurrences, left to right
Remove(s, old) ==
    IF Occurrences(s, old) = {} THEN s
    ELSE LET first == CHOOSE i \in Occurrences(s, old) :
                          \A j \in Occurrences(s, old) : i <= j
         IN  SubSeq(s, 1, first - 1)
                 \o Remove(SubSeq(s, first + Len(old), Len(s)), old)

RECURSIVE SplitLines(_)
\* str.split('\n')
SplitLines(s) ==
    IF Occurrences(s, "\n") = {} THEN << s >>
    ELSE LET first == CHOOSE i \in Occurrences(s, "\n") :
                          \A j \in Occurrences(s, "\n") : i <= j
         IN  << SubSeq(s, 1, first - 1) >> \o SplitLines(SubSeq(s, first + 1, Len(s)))

RECURSIVE JoinLines(_)
\* '\n'.join(lines)
JoinLines(lines) ==
    IF lines = << >> THEN ""
    ELSE IF Len(lines) = 1 THEN lines[1]
    ELSE lines[1] \o "\n" \o JoinLines(Tail(lines))


(***************************************************************************)
(* Bounds of the model.                                                    *)
(***************************************************************************)
\* messages in one provider call record
MaxMsgs == 2
\* text pieces in a transcript handed to the disclaimer stripping
MaxPieces == 3
\* leads of a phone list whose calls may each end in any way
MaxLeads == 2
\* leads of a long phone list, whose calls all end the same way
MaxLongLeads == 51
\* runs over the same phone list or leads table
MaxRuns == 2

(***************************************************************************)
(* The outcome classifier (vapi_caller.py).                                *)
(***************************************************************************)
Missing == "<missing>"

Analysis(by, qualified, conf, notes) ==
    [answered_by |-> by, is_qualified |-> qualified, confidence |-> conf,
     notes |-> notes]

disclaimer_phrases ==
    << "this call may be recorded", "this call is recorded",
       "this call will be recorded", "this call may be monitored",
       "for quality assurance", "for quality purposes",
       "for training purposes", "for quality and training" >>

\* the voicemail keywords without "leave a message"
voicemail_words_without_leave ==
    << "after the beep", "voicemail", "not available", "mailbox", "at the tone",
       "leave your name" >>

voicemail_words ==
    << "leave a message", "after the beep", "voicemail", "not available",
       "mailbox", "at the tone", "leave your name" >>

live_person_words ==
    << "how may i help", "how can i help", "is anyone there", "hello?",
       "are you calling about", "what is your name", "can i get your name",
       "what is this regarding", "i'll transfer", "let me connect" >>

RECURSIVE RemoveAll(_, _)
\* for phrase in phrases: cleaned = cleaned.replace(phrase, "")
RemoveAll(s, phrases) ==
    IF phrases = << >> THEN s
    ELSE RemoveAll(Remove(s, Head(phrases)), Tail(phrases))

\* the disclaimer removal of _fallback_classify, on the lower-cased transcript
StripDisclaimers(transcript_lower) ==
    Strip(RemoveAll(transcript_lower, disclaimer_phrases))

\* any(w in cleaned for w in words)
AnyIn(cleaned, words) ==
    \E k \in 1..Len(words) : Contains(cleaned, words[k])

\* _fallback_classify with the two keyword checks in the other order
fallback_voicemail_first(transcript, end_reason, duration) ==
    LET cleaned == StripDisclaimers(Lower(transcript))
    IN  IF AnyIn(cleaned, voicemail_words)
        THEN Analysis("voicemail", TRUE, "medium",
                      "Voicemail detected (fallback classifier)")
        ELSE IF AnyIn(cleaned, live_person_words)
        THEN Analysis("answering_service", FALSE, "medium",
                      "Live person detected (fallback classifier)")
        ELSE IF cleaned = "" \/ Len(cleaned) < 10
        THEN Analysis("inconclusive", TRUE, "low",
                      "Only disclaimers heard, call ended too early (fallback) - retry needed")
        ELSE Analysis("unknown", FALSE, "low",
                      "Could not classify (fallback) - manual review needed")

\* _fallback_classify without the branch for a negligible rest: whatever holds
\* no keyword is unknown
fallback_without_inconclusive(transcript, end_reason, duration) ==
    LET cleaned == StripDisclaimers(Lower(transcript))
    IN  IF AnyIn(cleaned, live_person_words)
        THEN Analysis("answering_service", FALSE, "medium",
                      "Live person detected (fallback classifier)")
        ELSE IF AnyIn(cleaned, voicemail_words)
        THEN Analysis("voicemail", TRUE, "medium",
                      "Voicemail detected (fallback classifier)")
        ELSE Analysis("unknown", FALSE, "low",
                      "Could not classify (fallback) - manual review needed")

fallback_classify(transcript, end_reason, duration) ==
    LET cleaned == StripDisclaimers(Lower(transcript))
    IN  IF AnyIn(cleaned, live_person_words)
        THEN Analysis("answering_service", FALSE, "medium",
                      "Live person detected (fallback classifier)")
        ELSE IF AnyIn(cleaned, voicemail_words)
        THEN Analysis("voicemail", TRUE, "medium",
                      "Voicemail detected (fallback classifier)")
        ELSE IF cleaned = "" \/ Len(cleaned) < 10
        THEN Analysis("inconclusive", TRUE, "low",
                      "Only disclaimers heard, call ended too early (fallback) - retry needed")
        ELSE Analysis("unknown", FALSE, "low",
                      "Could not classify (fallback) - manual review needed")

\* What the reasoning API can do with one request: the ways _grok_classify
\* raises, or the JSON object the model answered with.
GrokFailures ==
    {"no_api_key", "request_timeout", "http_error", "bad_envelope", "not_json"}

GrokCategories ==
    {"voicemail", "answering_service", "human", "ivr_only", "no_answer",
     "inconclusive"}

\* the model's JSON answer: any field may be absent, and nothing holds the
\* model to the categories or to the qualification rules of the prompt
GrokObjects ==
    [answered_by : GrokCategories \cup {"machine", Missing},
     is_qualified : {"true", "false", Missing},
     confidence : {"high", Missing}]

GrokReplies ==
    [raises : {TRUE}, why : GrokFailures]
        \cup [raises : {FALSE}, result : GrokObjects]

\* result.get(key, default)
Get(result, key, default) ==
    IF result[key] = Missing THEN default ELSE result[key]

\* the return of _grok_classify when it does not raise (a JSON true or false
\* is the Python True or False)
grok_classify(reply) ==
    Analysis(Get(reply.result, "answered_by", "unknown"),
             Get(reply.result, "is_qualified", "false") = "true",
             Get(reply.result, "confidence", "medium"),
             "Classified by Grok 4 Fast")

\* the transcript with the system prompt stripped, as _classify_response
\* computes it
user_transcript(transcript) ==
    IF transcript = "" THEN ""
    ELSE LET lines == SplitLines(Strip(transcript))
             user_lines == SelectSeq(lines, LAMBDA l : ~StartsWith(l, "system:"))
         IN  Strip(JoinLines(user_lines))

NoAnalysis == [answered_by |-> Missing]

\* what a call of _classify_response came to: the analysis it returned, the
\* tier that decided, and whether an exception left the function instead
Returned(a, t) == [analysis |-> a, tier |-> t, escaped |-> FALSE]
NoDecision == [analysis |-> NoAnalysis, tier |-> -1, escaped |-> FALSE]

\* _classify_response without its first rule: the end reason
\* customer-did-not-answer decides nothing
early_classify_without_no_answer_rule(transcript, end_reason) ==
    IF end_reason = "customer-busy"
    THEN Returned(Analysis("busy", FALSE, "high", "Line busy - retry later"), 0)
    ELSE IF user_transcript(transcript) = "" \/ Len(user_transcript(transcript)) < 10
    THEN Returned(Analysis("no_answer", TRUE, "high", "Silence/No answer - QUALIFIED LEAD!"), 1)
    ELSE NoDecision

\* _classify_response with a busy line counted as a qualified lead
early_classify_busy_qualifies(transcript, end_reason) ==
    IF end_reason = "customer-did-not-answer"
    THEN Returned(Analysis("no_answer", TRUE, "high", "NO ANSWER - QUALIFIED LEAD!"), 0)
    ELSE IF end_reason = "customer-busy"
    THEN Returned(Analysis("busy", TRUE, "high", "Line busy - retry later"), 0)
    ELSE IF user_transcript(transcript) = "" \/ Len(user_transcript(transcript)) < 10
    THEN Returned(Analysis("no_answer", TRUE, "high", "Silence/No answer - QUALIFIED LEAD!"), 1)
    ELSE NoDecision

\* Tier 0 and Tier 1 of _classify_response: the verdict, or NoDecision
early_classify(transcript, end_reason) ==
    IF end_reason = "customer-did-not-answer"
    THEN Returned(Analysis("no_answer", TRUE, "high", "NO ANSWER - QUALIFIED LEAD!"), 0)
    ELSE IF end_reason = "customer-busy"
    THEN Returned(Analysis("busy", FALSE, "high", "Line busy - retry later"), 0)
    ELSE IF user_transcript(transcript) = "" \/ Len(user_transcript(transcript)) < 10
    THEN Returned(Analysis("no_answer", TRUE, "high", "Silence/No answer - QUALIFIED LEAD!"), 1)
    ELSE NoDecision

\* _classify_response without the except clause: what _grok_classify
\* raises leaves the function
grok_or_raise(reply, fallback) ==
    IF reply.raises THEN [analysis |-> NoAnalysis, tier |-> 2, escaped |-> TRUE]
    ELSE Returned(grok_classify(reply), 2)

\* _classify_response where the keyword fallback has the last word, whatever
\* the reasoning API answered
fallback_overrides(reply, fallback) == Returned(fallback, 3)

\* try: return self._grok_classify(...)  except Exception: return
\* self._fallback_classify(user_transcript, ...), whose value is fallback
grok_or_fallback(reply, fallback) ==
    IF reply.raises THEN Returned(fallback, 3)
    ELSE Returned(grok_classify(reply), 2)

\* transcript_text of _analyze_call
RECURSIVE transcript_text(_)
transcript_text(messages) ==
    IF messages = << >> THEN ""
    ELSE LET msg == Head(messages)
         IN  (IF msg.content # "" THEN msg.role \o ": " \o msg.content \o "\n" ELSE "")
                 \o transcript_text(Tail(messages))


\* analyze_call of overnight_caller: the keyword classification of the
\* record of an ended call (transcript[:500] is the whole transcript for the
\* records of this model)
analyze_call(c) ==
    LET end_reason == IF c.endedReason = Missing THEN "unknown" ELSE c.endedReason
        transcript == transcript_text(c.messages)
        transcript_lower == Lower(transcript)
        has(w) == Contains(transcript_lower, w)
        outcome ==
            IF end_reason = "customer-did-not-answer" THEN << "no_answer", TRUE >>
            ELSE IF end_reason \in {"silence-timed-out", "exceeded-max-duration"}
            THEN IF has("leave") \/ has("message") \/ has("beep")
                 THEN << "voicemail", TRUE >>
                 ELSE << "voicemail_likely", TRUE >>
            ELSE IF has("answering service") \/ has("how can i help") \/ has("callback")
            THEN << "answering_service", FALSE >>
            ELSE IF has("wrong number") \/ has("sorry")
            THEN << "human_answered", FALSE >>
            ELSE IF has("leave") \/ has("message")
            THEN << "voicemail", TRUE >>
            ELSE << "unknown", FALSE >>
    IN  [status |-> "completed", result |-> outcome[1], qualified |-> outcome[2],
         end_reason |-> end_reason, duration |-> c.duration, transcript |-> transcript]

(***************************************************************************)
(* Classification of one fetched call: _analyze_call, _classify_response.  *)
(***************************************************************************)
\* the first lines of the system prompt of ASSISTANT_CONFIG
SystemPrompt ==
    "You are a COMPLETELY SILENT call observer. ABSOLUTE rules:\n1. NEVER speak."

\* the messages a call record can hold: the assistant's system prompt, the
\* silent bot's empty turns, and what the other side said
MessageKinds ==
    { [role |-> "system", content |-> "Stay silent."],
      [role |-> "system", content |-> SystemPrompt],
      [role |-> "bot", content |-> ""],
      [role |-> "user", content |-> "Ok"],
      [role |-> "user", content |-> "How may I help you today"],
      [role |-> "user", content |-> "Please leave a message after the tone"],
      [role |-> "user", content |-> "This call may be recorded"],
      [role |-> "user", content |-> "Press one for sales" ] }

MessageLists == UNION { [1..n -> MessageKinds] : n \in 0..MaxMsgs }

EndedReasons ==
    {"customer-did-not-answer", "customer-busy", "silence-timed-out",
     "exceeded-max-duration", Missing}

Durations == {18}

Calls == [messages : MessageLists, endedReason : EndedReasons, duration : Durations]

\* no reasoning request was made
NoReply == [asked |-> FALSE]

\* analyze_call of overnight_caller has not returned
NoNight == [status |-> "none"]

\* the record of an ended call, fetched by vapi_caller or by overnight_caller
InitClassify ==
    /\ call \in Calls
    /\ cpc \in {"fetched", "night_fetched"}
    /\ cur_transcript = ""
    /\ cur_end_reason = Missing
    /\ grok = NoReply
    /\ verdict = NoDecision
    /\ night = NoNight

IdleClassify ==
    /\ call = [messages |-> << >>, endedReason |-> Missing, duration |-> 0]
    /\ cpc = "idle"
    /\ cur_transcript = ""
    /\ cur_end_reason = Missing
    /\ grok = NoReply
    /\ verdict = NoDecision
    /\ night = NoNight

\* _analyze_call up to the reasoning request of _classify_response: the
\* transcript is built, Tier 0 and Tier 1 decide or the request goes out
AnalyzeCall ==
    /\ cpc = "fetched"
    /\ cur_transcript' = transcript_text(call.messages)
    /\ cur_end_reason' = IF call.endedReason = Missing THEN "unknown" ELSE call.endedReason
    /\ verdict' = early_classify(cur_transcript', cur_end_reason')
    /\ cpc' = IF verdict' = NoDecision THEN "tier2" ELSE "done"
    /\ UNCHANGED << call, grok, night >>
    /\ UNCHANGED << stripVars, runVars, dialVars, auditVars >>

\* the reasoning request ends (an answer, or any of its failures) and
\* _classify_response returns
GrokAnswers ==
    /\ cpc = "tier2"
    /\ \E fallback \in { fallback_classify(user_transcript(cur_transcript),
                                           cur_end_reason, call.duration) } :
          \E reply \in GrokReplies :
             /\ grok' = reply
             /\ verdict' = grok_or_fallback(reply, fallback)
    /\ cpc' = "done"
    /\ UNCHANGED << call, cur_transcript, cur_end_reason, night >>
    /\ UNCHANGED << stripVars, runVars, dialVars, auditVars >>

\* analyze_call of overnight_caller, on the record of an ended call
NightAnalyze ==
    /\ cpc = "night_fetched"
    /\ night' = analyze_call(call)
    /\ cpc' = "night_done"
    /\ UNCHANGED << call, cur_transcript, cur_end_reason, grok, verdict >>
    /\ UNCHANGED << stripVars, runVars, dialVars, auditVars >>

NextClassify == AnalyzeCall \/ GrokAnswers \/ NightAnalyze

(***************************************************************************)
(* The disclaimer removal of _fallback_classify, applied to a transcript   *)
(* and then to its own output.                                             *)
(***************************************************************************)
\* what a transcription can be put together from
TextPieces ==
    { "this call may be ", "recorded", "This call may be recorded",
      " for quality assurance", "hello? ", "\n" }

RECURSIVE Concat(_)
Concat(pieces) ==
    IF pieces = << >> THEN "" ELSE Head(pieces) \o Concat(Tail(pieces))

Texts == { Concat(ps) : ps \in UNION { [1..n -> TextPieces] : n \in 0..MaxPieces } }

InitStrip ==
    /\ spc = "text"
    /\ strip_text \in Texts
    /\ strip_once = ""
    /\ strip_twice = ""

IdleStrip ==
    /\ spc = "idle"
    /\ strip_text = ""
    /\ strip_once = ""
    /\ strip_twice = ""

StripOnce ==
    /\ spc = "text"
    /\ strip_once' = StripDisclaimers(Lower(strip_text))
    /\ spc' = "once"
    /\ UNCHANGED << strip_text, strip_twice >>
    /\ UNCHANGED << classifyVars, runVars, dialVars, auditVars >>

StripAgain ==
    /\ spc = "once"
    /\ strip_twice' = StripDisclaimers(strip_once)
    /\ spc' = "twice"
    /\ UNCHANGED << strip_text, strip_once >>
    /\ UNCHANGED << classifyVars, runVars, dialVars, auditVars >>

NextStrip == StripOnce \/ StripAgain

(***************************************************************************)
(* The run controllers: vapi_caller.run_audit (from a phone list file, or  *)
(* from the leads table through AuditCaller.run_audit_batch) and           *)
(* overnight_caller.main.                                                  *)
(***************************************************************************)
\* vapi_caller.run_audit: if i % 25 == 0
AUTO_SAVE_EVERY == 25
\* overnight_caller.SAVE_EVERY
SAVE_EVERY == 10
\* overnight_caller.MAX_CALLS
MAX_CALLS == 100
\* argparse default of --limit
DEFAULT_LIMIT == 10

Phones == {"+13105550101", "+13105550102"}

\* whether the line or row of a phone claims 24/7 service
Claims24(p) == p = "+13105550101"

Lead(p) == [phone |-> p, is_24h |-> Claims24(p)]

Min(a, b) == IF a < b THEN a ELSE b

\* seq[:n]
Take(seq, n) == SubSeq(seq, 1, Min(n, Len(seq)))

\* the classifications a completed call can carry into a run
RunAnalyses ==
    { Analysis("no_answer", TRUE, "high", ""),
      Analysis("human", FALSE, "high", ""),
      Analysis("answering_service", FALSE, "medium", ""),
      Analysis("unknown", FALSE, "low", "") }

\* how one make_call can end: the dispatch answered with a non-success
\* response, an exception was raised (transport, JSON), the poll ceiling
\* elapsed, or the call ended and was classified
CallOutcomes ==
    [kind : {"dispatch_error"}, message : {"Bad Request"}]
        \cup [kind : {"exception", "timeout"}]
        \cup [kind : {"completed"}, transcript : {"user: Hello?\n"},
                                    analysis : RunAnalyses]

Raised == [status |-> "raised"]

\* make_call without line 216: what _wait_for_completion returns at the poll
\* ceiling carries no phone
make_call_timeout_without_phone(phone, outcome) ==
    CASE outcome.kind = "dispatch_error" ->
            [status |-> "error", phone |-> phone, error |-> outcome.message,
             transcript |-> Missing, analysis |-> NoAnalysis]
      [] outcome.kind = "exception" -> Raised
      [] outcome.kind = "timeout" ->
            [status |-> "timeout", phone |-> Missing, error |-> Missing,
             transcript |-> Missing, analysis |-> NoAnalysis]
      [] outcome.kind = "completed" ->
            [status |-> "completed", phone |-> phone, error |-> Missing,
             transcript |-> outcome.transcript, analysis |-> outcome.analysis]

\* make_call where the end of the wait without a terminal status is reported
\* as an error
make_call_timeout_as_error(phone, outcome) ==
    CASE outcome.kind = "dispatch_error" ->
            [status |-> "error", phone |-> phone, error |-> outcome.message,
             transcript |-> Missing, analysis |-> NoAnalysis]
      [] outcome.kind = "exception" -> Raised
      [] outcome.kind = "timeout" ->
            [status |-> "error", phone |-> phone, error |-> "timeout",
             transcript |-> Missing, analysis |-> NoAnalysis]
      [] outcome.kind = "completed" ->
            [status |-> "completed", phone |-> phone, error |-> Missing,
             transcript |-> outcome.transcript, analysis |-> outcome.analysis]

\* VapiCaller.make_call and overnight_caller.make_call: the record returned,
\* or Raised; a key the record does not hold is Missing
make_call(phone, outcome) ==
    CASE outcome.kind = "dispatch_error" ->
            [status |-> "error", phone |-> phone, error |-> outcome.message,
             transcript |-> Missing, analysis |-> NoAnalysis]
      [] outcome.kind = "exception" -> Raised
      [] outcome.kind = "timeout" ->
            [status |-> "timeout", phone |-> phone, error |-> Missing,
             transcript |-> Missing, analysis |-> NoAnalysis]
      [] outcome.kind = "completed" ->
            [status |-> "completed", phone |-> phone, error |-> Missing,
             transcript |-> outcome.transcript, analysis |-> outcome.analysis]

\* run_audit, lines 650-654: try: make_call  except Exception: an error record
guarded_call(phone, outcome) ==
    IF make_call(phone, outcome) = Raised
    THEN [status |-> "error", phone |-> phone, error |-> "str(e)",
          transcript |-> Missing, analysis |-> NoAnalysis]
    ELSE make_call(phone, outcome)

\* analysis.get('is_qualified', True): a record without analysis counts as
\* qualified
qualified_by_default(r) == r.analysis = NoAnalysis \/ r.analysis.is_qualified

\* analysis.get('is_qualified', False); in overnight_caller r.get('qualified')
IsQualified(r) == r.analysis # NoAnalysis /\ r.analysis.is_qualified

\* analysis.get('answered_by', 'unknown')
AnsweredBy(r) == IF r.analysis = NoAnalysis THEN "unknown" ELSE r.analysis.answered_by

NoStats == [total |-> 0, qualified |-> 0, answered |-> 0, service |-> 0, failed |-> 0]

\* the counting of run_audit without its else branch: a result that is
\* neither qualified, human nor answering service is counted in total only
count_without_failed(st, r) ==
    IF IsQualified(r) THEN [st EXCEPT !.total = @ + 1, !.qualified = @ + 1]
    ELSE IF AnsweredBy(r) = "human" THEN [st EXCEPT !.total = @ + 1, !.answered = @ + 1]
    ELSE IF AnsweredBy(r) = "answering_service"
    THEN [st EXCEPT !.total = @ + 1, !.service = @ + 1]
    ELSE [st EXCEPT !.total = @ + 1]

\* run_audit, lines 661-683
count(st, r) ==
    LET key == IF IsQualified(r) THEN "qualified"
               ELSE IF AnsweredBy(r) = "human" THEN "answered"
               ELSE IF AnsweredBy(r) = "answering_service" THEN "service"
               ELSE "failed"
    IN  [st EXCEPT !.total = @ + 1, ![key] = @ + 1]

\* a save that is one result behind
save_all_but_last(files, rs) ==
    IF rs = << >> THEN files
    ELSE Append(files, [all |-> SubSeq(rs, 1, Len(rs) - 1),
                        qualified |-> SelectSeq(SubSeq(rs, 1, Len(rs) - 1), IsQualified)])

\* a save whose qualified-only file holds every completed call
save_completed_as_qualified(files, rs) ==
    IF rs = << >> THEN files
    ELSE Append(files, [all |-> rs,
                        qualified |-> SelectSeq(rs, LAMBDA r : r.status = "completed")])

\* save_results and save_progress: nothing is written for an empty list;
\* otherwise one file with every result and one with the qualified ones
save_results(files, rs) ==
    IF rs = << >> THEN files
    ELSE Append(files, [all |-> rs, qualified |-> SelectSeq(rs, IsQualified)])

\* AuditCaller.get_leads_for_calling: the rows with status NEW, the 24/7
\* filter, the limit
get_leads_for_calling(rows, status, only, lim) ==
    LET wanted(k) == status[k] = "new" /\ (only => Claims24(rows[k]))
        kept == SelectSeq([k \in 1..Len(rows) |-> k], wanted)
    IN  Take([j \in 1..Len(kept) |-> Lead(rows[kept[j]])], lim)

\* load_leads on the phone list (vapi_caller, overnight_caller)
load_leads(rows) == [k \in 1..Len(rows) |-> Lead(rows[k])]

\* the leads run_audit dials: the 24/7 filter, then leads[:limit]
run_leads(ls, only, lim) ==
    Take(IF only THEN SelectSeq(ls, LAMBDA l : l.is_24h) ELSE ls, lim)

\* the interval of the periodic save
SaveEvery == IF ctl = "vapi" THEN AUTO_SAVE_EVERY ELSE SAVE_EVERY

AnyOutcome == [kind |-> "any"]

RECURSIVE Alternate(_)
\* a phone list of n lines over the two phones, in turn
Alternate(n) ==
    IF n = 0 THEN << >>
    ELSE Append(Alternate(n - 1),
                IF n % 2 = 1 THEN "+13105550101" ELSE "+13105550102")

ShortLists == UNION { [1..n -> Phones] : n \in 0..MaxLeads }

InitRun ==
    /\ ctl \in {"vapi", "overnight"}
    /\ source \in (IF ctl = "vapi" THEN {"file", "db"} ELSE {"file"})
    /\ only_24h \in (IF ctl = "vapi" THEN BOOLEAN ELSE {FALSE})
    /\ limit \in (IF ctl = "vapi" THEN {1, DEFAULT_LIMIT, MaxLongLeads} ELSE {MAX_CALLS})
    /\ \/ /\ input \in ShortLists
          /\ oracle = AnyOutcome
          /\ db_status \in [1..Len(input) -> IF source = "db" THEN {"new", "qualified"} ELSE {"new"}]
       \/ /\ input = Alternate(MaxLongLeads)
          /\ oracle \in CallOutcomes
          /\ db_status = [k \in 1..Len(input) |-> "new"]
    /\ rpc = "start"
    /\ leads = << >>
    /\ idx = 0
    /\ results = << >>
    /\ stats = NoStats
    /\ saved = << >>
    /\ dialed = << >>
    /\ prior = {}
    /\ runs = 0
    /\ halted = FALSE

IdleRun ==
    /\ ctl = "idle"
    /\ source = "file"
    /\ only_24h = FALSE
    /\ limit = 0
    /\ input = << >>
    /\ db_status = << >>
    /\ oracle = AnyOutcome
    /\ rpc = "idle"
    /\ leads = << >>
    /\ idx = 0
    /\ results = << >>
    /\ stats = NoStats
    /\ saved = << >>
    /\ dialed = << >>
    /\ prior = {}
    /\ runs = 0
    /\ halted = FALSE

\* the leads the caller of the run controller loaded: main of vapi_caller and
\* of overnight_caller from the phone list, run_audit_batch from the table
Loaded ==
    IF source = "db" THEN get_leads_for_calling(input, db_status, only_24h, limit)
    ELSE load_leads(input)

\* main / run_audit_batch up to the loop of the run controller: no run
\* without leads; run_audit filters and cuts to the limit, overnight main
\* cuts to MAX_CALLS
StartRun ==
    /\ rpc = "start"
    /\ ~halted
    /\ runs' = runs + 1
    /\ leads' = IF ctl = "vapi" THEN run_leads(Loaded, only_24h, limit)
                ELSE Take(Loaded, MAX_CALLS)
    /\ idx' = 1
    /\ rpc' = IF Loaded = << >> THEN "done"
              ELSE IF leads' = << >> THEN "final" ELSE "call"
    /\ UNCHANGED << ctl, source, only_24h, limit, input, db_status, oracle,
                    results, stats, saved, dialed, prior, halted >>
    /\ UNCHANGED << classifyVars, stripVars, dialVars, auditVars >>

\* one make_call of the loop and the recording of its result: run_audit
\* lines 650-683, overnight main lines 229-237 (where an exception of
\* make_call is not caught and ends the process)
MakeCall ==
    /\ rpc = "call"
    /\ ~halted
    /\ \E o \in (IF oracle = AnyOutcome THEN CallOutcomes ELSE {oracle}) :
          LET phone == leads[idx].phone
              r == IF ctl = "vapi" THEN guarded_call(phone, o) ELSE make_call(phone, o)
          IN  /\ dialed' = Append(dialed, phone)
              /\ IF r = Raised
                 THEN /\ halted' = TRUE
                      /\ UNCHANGED << results, stats, rpc >>
                 ELSE /\ results' = Append(results, r)
                      /\ stats' = IF ctl = "vapi" THEN count(stats, r) ELSE stats
                      /\ rpc' = "autosave"
                      /\ UNCHANGED halted
    /\ UNCHANGED << ctl, source, only_24h, limit, input, db_status, oracle,
                    leads, idx, saved, prior, runs >>
    /\ UNCHANGED << classifyVars, stripVars, dialVars, auditVars >>

\* the periodic save: run_audit lines 686-688, overnight main lines 240-241
AutoSave ==
    /\ rpc = "autosave"
    /\ ~halted
    /\ saved' = IF idx % SaveEvery = 0 THEN save_results(saved, results) ELSE saved
    /\ rpc' = "delay"
    /\ UNCHANGED << ctl, source, only_24h, limit, input, db_status, oracle,
                    leads, idx, results, stats, dialed, prior, runs, halted >>
    /\ UNCHANGED << classifyVars, stripVars, dialVars, auditVars >>

\* the delay between two calls, and the step of the loop
Delay ==
    /\ rpc = "delay"
    /\ ~halted
    /\ IF idx < Len(leads)
       THEN idx' = idx + 1 /\ rpc' = "call"
       ELSE idx' = idx /\ rpc' = "final"
    /\ UNCHANGED << ctl, source, only_24h, limit, input, db_status, oracle,
                    leads, results, stats, saved, dialed, prior, runs, halted >>
    /\ UNCHANGED << classifyVars, stripVars, dialVars, auditVars >>

\* the final save: run_audit line 697, overnight main line 251
FinalSave ==
    /\ rpc = "final"
    /\ ~halted
    /\ saved' = save_results(saved, results)
    /\ rpc' = "done"
    /\ UNCHANGED << ctl, source, only_24h, limit, input, db_status, oracle,
                    leads, idx, results, stats, dialed, prior, runs, halted >>
    /\ UNCHANGED << classifyVars, stripVars, dialVars, auditVars >>

\* the run is stopped wherever it is: the operator interrupts it (the
\* KeyboardInterrupt is no Exception: neither except clause catches it, and
\* no handler saves), the process is killed, or the machine stops
Terminate ==
    /\ rpc \in {"call", "autosave", "delay", "final"}
    /\ ~halted
    /\ halted' = TRUE
    /\ UNCHANGED << ctl, source, only_24h, limit, input, db_status, oracle, rpc,
                    leads, idx, results, stats, saved, dialed, prior, runs >>
    /\ UNCHANGED << classifyVars, stripVars, dialVars, auditVars >>

\* the phones of the results in the files a run wrote
RECURSIVE SavedPhones(_)
SavedPhones(files) ==
    IF files = << >> THEN {}
    ELSE { Head(files).all[k].phone : k \in 1..Len(Head(files).all) }
             \cup SavedPhones(Tail(files))

\* the operator runs the same command again, on the same phone list or
\* table; no call of the run controllers writes the leads table
RunAgain ==
    /\ rpc = "done" \/ halted
    /\ runs < MaxRuns
    /\ halted' = FALSE
    /\ prior' = prior \cup SavedPhones(saved)
    /\ rpc' = "start"
    /\ leads' = << >>
    /\ idx' = 0
    /\ results' = << >>
    /\ stats' = NoStats
    /\ saved' = << >>
    /\ dialed' = << >>
    /\ UNCHANGED << ctl, source, only_24h, limit, input, db_status, oracle, runs >>
    /\ UNCHANGED << classifyVars, stripVars, dialVars, auditVars >>

NextRun ==
    \/ StartRun
    \/ MakeCall
    \/ AutoSave
    \/ Delay
    \/ FinalSave
    \/ Terminate
    \/ RunAgain

(***************************************************************************)
(* One pass of a run controller, request by request: the call request of   *)
(* make_call, the status checks of the wait (_wait_for_completion in       *)
(* vapi_caller, the for loop of make_call in overnight_caller), and the    *)
(* recording of the result by the loop of run_audit and of main.           *)
(***************************************************************************)
\* _wait_for_completion: timeout = 150
POLL_TIMEOUT == 150
\* requests.get(..., timeout=10) of _wait_for_completion
POLL_REQUEST_TIMEOUT == 10
\* poll_interval = 2
FAST_POLL == 2
\* poll_interval = 3, once more than SLOW_AFTER seconds went by
SLOW_POLL == 3
SLOW_AFTER == 30
\* time.sleep(2) after a non-200 or empty answer
RETRY_PAUSE == 2
\* time.sleep(3) in the except clause
ERROR_PAUSE == 3
\* overnight_caller.make_call: for _ in range(30): time.sleep(3)
NIGHT_POLLS == 30
NIGHT_PAUSE == 3

\* targets of one pass
MaxTargets == 2

\* what the provider can do with the call request: create the call, answer
\* 200 with a body that is not JSON, refuse it (4xx/5xx), rate-limit it
\* (429), drop the connection, or never answer
DispatchResponses ==
    {"created", "not_json", "rejected", "rate_limited", "connection_error",
     "no_response"}

\* response.text of a refused call request
ProviderMessage(resp) ==
    IF resp = "rate_limited" THEN "Too Many Requests" ELSE "Bad Request"

\* make_call without lines 202-207: the wait begins whatever the provider
\* answered
dispatch_waits_after_refusal(resp) ==
    CASE resp \in {"created", "rejected", "rate_limited"} -> "wait"
      [] resp \in {"not_json", "connection_error"} -> "raise"
      [] resp = "no_response" -> "hang"

\* what make_call does with the provider's answer to the call request: go on
\* to the wait ("wait"), return an error record ("error"), raise ("raise"),
\* or stay blocked in requests.post, which has no timeout ("hang")
dispatch(resp) ==
    CASE resp = "created" -> "wait"
      [] resp \in {"rejected", "rate_limited"} -> "error"
      [] resp \in {"not_json", "connection_error"} -> "raise"
      [] resp = "no_response" -> "hang"

\* what a status check can meet: a failure, or a 200 answer with a JSON
\* object and its status (Missing: the object has no status)
PollFailures ==
    {"non_200", "empty_body", "not_json", "connection_error", "no_response"}

PollStatuses == {"queued", "in-progress", Missing, "ended", "failed"}

PollResponses ==
    [kind : {"failure"}, why : PollFailures]
        \cup [kind : {"status"}, status : PollStatuses]

NoPoll == [kind |-> "none"]

\* one turn of the while loop of _wait_for_completion with the try block
\* left out: what requests.get and response.json() raise leaves the function
wait_step_unguarded(p, t, interval) ==
    IF p.kind = "failure"
    THEN IF p.why \in {"non_200", "empty_body"}
         THEN [then |-> "poll", elapsed |-> t + RETRY_PAUSE, interval |-> interval]
         ELSE [then |-> "raise", elapsed |-> t, interval |-> interval]
    ELSE IF p.status \in {"ended", "failed"}
    THEN [then |-> "analyze", elapsed |-> t, interval |-> interval]
    ELSE [then |-> "poll", elapsed |-> t + interval,
          interval |-> IF t + interval > SLOW_AFTER THEN SLOW_POLL ELSE interval]

\* one turn of the while loop of _wait_for_completion with "ringing" and
\* every unknown status taken for the end of the call
wait_step_any_status_ends(p, t, interval) ==
    IF p.kind = "failure"
    THEN [then |-> "poll",
          elapsed |-> t + (CASE p.why \in {"non_200", "empty_body"} -> RETRY_PAUSE
                             [] p.why = "no_response" -> POLL_REQUEST_TIMEOUT + ERROR_PAUSE
                             [] OTHER -> ERROR_PAUSE),
          interval |-> interval]
    ELSE [then |-> "analyze", elapsed |-> t, interval |-> interval]

\* one turn of the while loop of _wait_for_completion, entered t seconds
\* after the start: a failed check sleeps and polls again (a request without
\* answer raises Timeout after POLL_REQUEST_TIMEOUT seconds), a terminal
\* status goes to _analyze_call, any other status sleeps poll_interval
wait_step(p, t, interval) ==
    IF p.kind = "failure"
    THEN [then |-> "poll",
          elapsed |-> t + (CASE p.why \in {"non_200", "empty_body"} -> RETRY_PAUSE
                             [] p.why = "no_response" -> POLL_REQUEST_TIMEOUT + ERROR_PAUSE
                             [] OTHER -> ERROR_PAUSE),
          interval |-> interval]
    ELSE IF p.status \in {"ended", "failed"}
    THEN [then |-> "analyze", elapsed |-> t, interval |-> interval]
    ELSE [then |-> "poll", elapsed |-> t + interval,
          interval |-> IF t + interval > SLOW_AFTER THEN SLOW_POLL ELSE interval]

\* one turn of the for loop of overnight_caller.make_call, after its sleep:
\* requests.get has no timeout and no try block is around it
night_step(p) ==
    IF p.kind = "failure"
    THEN CASE p.why = "non_200" -> "poll"
           [] p.why \in {"empty_body", "not_json", "connection_error"} -> "raise"
           [] p.why = "no_response" -> "hang"
    ELSE IF p.status \in {"ended", "failed"} THEN "analyze" ELSE "poll"

\* a delay after every call, the last one too
delay_always(i, n) == TRUE

\* run_audit line 691, main line 244: if i < len(leads), the delay
delay_due(i, n) == i < n

NoRecord == [status |-> "none"]

\* i-th target
Target(k) == targets[k]

\* the interval of the periodic save of the controller
DialSaveEvery == IF prog = "vapi" THEN AUTO_SAVE_EVERY ELSE SAVE_EVERY

InitDial ==
    /\ prog \in {"vapi", "overnight"}
    /\ targets \in { Alternate(n) : n \in 1..MaxTargets }
    /\ d_pc = "dispatch"
    /\ d_idx = 1
    /\ posted = << >>
    /\ dispatch_resp = "none"
    /\ elapsed = 0
    /\ poll_interval = FAST_POLL
    /\ last_poll = NoPoll
    /\ cur = NoRecord
    /\ d_results = << >>
    /\ d_stats = NoStats
    /\ slept = << >>
    /\ d_saved = << >>

IdleDial ==
    /\ prog = "idle"
    /\ targets = << >>
    /\ d_pc = "idle"
    /\ d_idx = 0
    /\ posted = << >>
    /\ dispatch_resp = "none"
    /\ elapsed = 0
    /\ poll_interval = FAST_POLL
    /\ last_poll = NoPoll
    /\ cur = NoRecord
    /\ d_results = << >>
    /\ d_stats = NoStats
    /\ slept = << >>
    /\ d_saved = << >>

\* make_call raised: run_audit turns it into an error record (lines 650-654),
\* main of overnight_caller does not catch it and the process ends
Raise ==
    IF prog = "vapi"
    THEN /\ cur' = guarded_call(Target(d_idx), [kind |-> "exception"])
         /\ d_pc' = "record"
    ELSE /\ cur' = cur
         /\ d_pc' = "crashed"

\* make_call up to the wait: the call request is submitted and answered
Dispatch ==
    /\ d_pc = "dispatch"
    /\ posted' = Append(posted, d_idx)
    /\ \E resp \in DispatchResponses :
          /\ dispatch_resp' = resp
          /\ CASE dispatch(resp) = "wait" -> d_pc' = "waiting" /\ cur' = cur
               [] dispatch(resp) = "error" ->
                     /\ cur' = make_call(Target(d_idx),
                                         [kind |-> "dispatch_error",
                                          message |-> ProviderMessage(resp)])
                     /\ d_pc' = "record"
               [] dispatch(resp) = "raise" -> Raise
               [] dispatch(resp) = "hang" -> d_pc' = "hung" /\ cur' = cur
    /\ elapsed' = 0
    /\ poll_interval' = FAST_POLL
    /\ last_poll' = NoPoll
    /\ UNCHANGED << prog, targets, d_idx, d_results, d_stats, slept, d_saved >>
    /\ UNCHANGED << classifyVars, stripVars, runVars, auditVars >>

\* the record of an ended call is analysed and classified (_analyze_call,
\* analyze_call), and make_call returns it
Analyzed ==
    \E a \in RunAnalyses :
       /\ cur' = make_call(Target(d_idx),
                           [kind |-> "completed", transcript |-> "user: Hello?\n",
                            analysis |-> a])
       /\ d_pc' = "record"

\* one turn of the while loop of _wait_for_completion
Poll ==
    /\ d_pc = "waiting"
    /\ prog = "vapi"
    /\ elapsed < POLL_TIMEOUT
    /\ \E p \in PollResponses :
          /\ last_poll' = p
          /\ elapsed' = wait_step(p, elapsed, poll_interval).elapsed
          /\ poll_interval' = wait_step(p, elapsed, poll_interval).interval
          /\ CASE wait_step(p, elapsed, poll_interval).then = "poll" ->
                     d_pc' = "waiting" /\ cur' = cur
               [] wait_step(p, elapsed, poll_interval).then = "analyze" -> Analyzed
               [] wait_step(p, elapsed, poll_interval).then = "raise" -> Raise
    /\ UNCHANGED << prog, targets, d_idx, posted, dispatch_resp, d_results,
                    d_stats, slept, d_saved >>
    /\ UNCHANGED << classifyVars, stripVars, runVars, auditVars >>

\* the ceiling of _wait_for_completion elapsed: the timeout record, to which
\* make_call adds the phone
PollCeiling ==
    /\ d_pc = "waiting"
    /\ prog = "vapi"
    /\ elapsed >= POLL_TIMEOUT
    /\ cur' = make_call(Target(d_idx), [kind |-> "timeout"])
    /\ d_pc' = "record"
    /\ UNCHANGED << prog, targets, d_idx, posted, dispatch_resp, elapsed,
                    poll_interval, last_poll, d_results, d_stats, slept, d_saved >>
    /\ UNCHANGED << classifyVars, stripVars, runVars, auditVars >>

\* one turn of the for loop of overnight_caller.make_call
NightPoll ==
    /\ d_pc = "waiting"
    /\ prog = "overnight"
    /\ elapsed < NIGHT_POLLS * NIGHT_PAUSE
    /\ elapsed' = elapsed + NIGHT_PAUSE
    /\ \E p \in PollResponses :
          /\ last_poll' = p
          /\ CASE night_step(p) = "poll" -> d_pc' = "waiting" /\ cur' = cur
               [] night_step(p) = "analyze" -> Analyzed
               [] night_step(p) = "raise" -> Raise
               [] night_step(p) = "hang" -> d_pc' = "hung" /\ cur' = cur
    /\ UNCHANGED << prog, targets, d_idx, posted, dispatch_resp, poll_interval,
                    d_results, d_stats, slept, d_saved >>
    /\ UNCHANGED << classifyVars, stripVars, runVars, auditVars >>

\* the for loop of overnight_caller.make_call ran out
NightCeiling ==
    /\ d_pc = "waiting"
    /\ prog = "overnight"
    /\ elapsed >= NIGHT_POLLS * NIGHT_PAUSE
    /\ cur' = make_call(Target(d_idx), [kind |-> "timeout"])
    /\ d_pc' = "record"
    /\ UNCHANGED << prog, targets, d_idx, posted, dispatch_resp, elapsed,
                    poll_interval, last_poll, d_results, d_stats, slept, d_saved >>
    /\ UNCHANGED << classifyVars, stripVars, runVars, auditVars >>

\* the rest of the turn of the loop of the run controller: the result is
\* appended and counted, the periodic save, and the delay before the next
\* call when there is one (run_audit lines 656-693, main lines 230-245);
\* the locals of make_call are gone
RecordResult ==
    /\ d_pc = "record"
    /\ d_results' = Append(d_results, cur)
    /\ d_stats' = IF prog = "vapi" THEN count(d_stats, cur) ELSE d_stats
    /\ d_saved' = IF d_idx % DialSaveEvery = 0
                  THEN save_results(d_saved, d_results') ELSE d_saved
    /\ slept' = IF delay_due(d_idx, Len(targets)) THEN Append(slept, d_idx) ELSE slept
    /\ IF d_idx < Len(targets)
       THEN d_idx' = d_idx + 1 /\ d_pc' = "dispatch"
       ELSE d_idx' = d_idx /\ d_pc' = "final"
    /\ cur' = NoRecord
    /\ dispatch_resp' = "none"
    /\ elapsed' = 0
    /\ poll_interval' = FAST_POLL
    /\ last_poll' = NoPoll
    /\ UNCHANGED << prog, targets, posted >>
    /\ UNCHANGED << classifyVars, stripVars, runVars, auditVars >>

\* the final save: run_audit line 697, main line 251
DialFinalSave ==
    /\ d_pc = "final"
    /\ d_saved' = save_results(d_saved, d_results)
    /\ d_pc' = "done"
    /\ UNCHANGED << prog, targets, d_idx, posted, dispatch_resp, elapsed,
                    poll_interval, last_poll, cur, d_results, d_stats, slept >>
    /\ UNCHANGED << classifyVars, stripVars, runVars, auditVars >>

NextDial ==
    \/ Dispatch
    \/ Poll
    \/ PollCeiling
    \/ NightPoll
    \/ NightCeiling
    \/ RecordResult
    \/ DialFinalSave

(***************************************************************************)
(* AuditCaller.make_audit_call (nightline/caller.py): one call to one row   *)
(* of the leads table, recorded in the call_audits table.                   *)
(***************************************************************************)
\* rows of the leads table
MaxAuditLeads == 2
\* invocations of make_audit_call
MaxAuditCalls == 2

\* Lead.phone_number of row k
AuditPhone(k) == Alternate(k)[k]

\* result.get('call_time'): no record make_call returns holds the key
\* (vapi_caller.py lines 202-207, 216-219, 260, 304-312)
CallTime(result) == Missing

\* outcome_map.get(analysis.get('answered_by'), CallOutcome.UNKNOWN)
outcome_map(result) ==
    LET by == IF result.analysis = NoAnalysis THEN Missing
              ELSE result.analysis.answered_by
    IN  CASE by = "voicemail" -> "voicemail"
          [] by = "no_answer" -> "no_answer"
          [] by \in {"human", "answering_service"} -> "answered"
          [] by = "busy" -> "busy"
          [] OTHER -> "unknown"

\* the CallAudit row make_audit_call builds from the result of make_call
CallAudit(k, result) ==
    [lead_id |-> k,
     phone_number_called |-> AuditPhone(k),
     call_initiated_at |-> CallTime(result),
     outcome |-> outcome_map(result),
     notes |-> IF result.analysis = NoAnalysis THEN "" ELSE result.analysis.notes]

\* session.add(audit); session.commit(): the new status of lead k and the row
\* are written in one transaction; call_initiated_at is declared
\* nullable=False (database.py line 104), so a row without it fails the
\* INSERT and the transaction is rolled back
commit(statuses, rows, k, status, audit) ==
    IF audit.call_initiated_at = Missing
    THEN [ok |-> FALSE, statuses |-> statuses, rows |-> rows]
    ELSE [ok |-> TRUE, statuses |-> [statuses EXCEPT ![k] = status],
          rows |-> Append(rows, audit)]

InitAudit ==
    /\ a_pc = "ready"
    /\ lead_status \in UNION { [1..n -> {"new", "disqualified"}] : n \in 1..MaxAuditLeads }
    /\ call_audits = << >>
    /\ audit_calls = << >>
    /\ audit_result = NoRecord

IdleAudit ==
    /\ a_pc = "idle"
    /\ lead_status = << >>
    /\ call_audits = << >>
    /\ audit_calls = << >>
    /\ audit_result = NoRecord

\* nightline call <id>: make_audit_call on row k, from make_call to the commit
MakeAuditCall ==
    /\ a_pc \in {"ready", "returned", "raised"}
    /\ Len(audit_calls) < MaxAuditCalls
    /\ \E k \in 1..Len(lead_status), o \in CallOutcomes :
          LET result == make_call(AuditPhone(k), o)
          IN  /\ audit_calls' = Append(audit_calls, k)
              /\ audit_result' = result
              /\ IF result = Raised
                 THEN /\ a_pc' = "raised"
                      /\ UNCHANGED << lead_status, call_audits >>
                 ELSE LET status == IF IsQualified(result) THEN "qualified"
                                    ELSE "disqualified"
                          done == commit(lead_status, call_audits, k, status,
                                         CallAudit(k, result))
                      IN  /\ lead_status' = done.statuses
                          /\ call_audits' = done.rows
                          /\ a_pc' = IF done.ok THEN "returned" ELSE "raised"
    /\ UNCHANGED << classifyVars, stripVars, runVars, dialVars >>

NextAudit == MakeAuditCall

(***************************************************************************)
(* The specifications.                                                     *)
(***************************************************************************)
\* one fetched call is analysed and classified
InitOfClassify == InitClassify /\ IdleStrip /\ IdleRun /\ IdleDial /\ IdleAudit

SpecClassify == InitOfClassify /\ [][NextClassify]_vars

\* the disclaimer removal is applied to a transcript, and again
InitOfStrip == IdleClassify /\ InitStrip /\ IdleRun /\ IdleDial /\ IdleAudit

SpecStrip == InitOfStrip /\ [][NextStrip]_vars

\* runs of the run controllers
InitOfRun == IdleClassify /\ IdleStrip /\ InitRun /\ IdleDial /\ IdleAudit

SpecRun == InitOfRun /\ [][NextRun]_vars

\* one pass of a run controller, request by request
InitOfDial == IdleClassify /\ IdleStrip /\ IdleRun /\ InitDial /\ IdleAudit

SpecDial == InitOfDial /\ [][NextDial]_vars

\* the same, where a step that can be taken is taken in the end
FairDial == InitOfDial /\ [][NextDial]_vars /\ WF_vars(NextDial)


\* single audit calls on rows of the leads table
InitOfAudit == IdleClassify /\ IdleStrip /\ IdleRun /\ IdleDial /\ InitAudit

SpecAudit == InitOfAudit /\ [][NextAudit]_vars

(***************************************************************************)
(* The properties.                                                         *)
(***************************************************************************)
\* the results in the newest file written by the run
Persisted == IF saved = << >> THEN 0 ELSE Len(saved[Len(saved)].all)

\* C1: when run_audit has finished over a lead list, results holds exactly
\* one entry per dialed lead, in lead order: results[i] carries the phone of
\* leads[i], and every lead was dialed once, whatever way each call ended.
C1_OneResultPerLead ==
    (ctl = "vapi" /\ rpc = "done") =>
        /\ Len(results) = Len(leads)
        /\ \A i \in 1..Len(leads) : results[i].phone = leads[i].phone
        /\ dialed = [i \in 1..Len(leads) |-> leads[i].phone]

\* a finished run over two leads, one call refused or raising, one timed out
C1_Witness ==
    /\ ctl = "vapi" /\ rpc = "done"
    /\ Len(leads) = 2 /\ Len(results) = 2
    /\ results[1].status = "error"
    /\ results[2].status = "timeout"

\* C2: a run never dials a phone that has a result in the files of an
\* earlier run over the same phone list or leads table.
C2_NeverRedials ==
    \A k \in 1..Len(dialed) : dialed[k] \notin prior

C4_FallbackOnFailure ==
    (cpc = "done" /\ grok # NoReply /\ grok.raises) =>
        /\ verdict.tier = 3
        /\ ~verdict.escaped
        /\ verdict.analysis = fallback_classify(user_transcript(cur_transcript),
                                                cur_end_reason, call.duration)

\* no API key is set, and the keyword classifier found a voicemail
C4_Witness ==
    /\ cpc = "done" /\ grok # NoReply /\ grok.raises
    /\ grok.why = "no_api_key"
    /\ verdict.tier = 3
    /\ verdict.analysis.answered_by = "voicemail"

\* C5: for end reason customer-did-not-answer the classification is
\* no_answer, qualified, high confidence, whatever the transcript, and the
\* reasoning API is not asked.
C5_NoAnswerRule ==
    (cpc = "done" /\ cur_end_reason = "customer-did-not-answer") =>
        /\ verdict.analysis.answered_by = "no_answer"
        /\ verdict.analysis.is_qualified = TRUE
        /\ verdict.analysis.confidence = "high"
        /\ verdict.tier = 0
        /\ grok = NoReply

\* the call was not answered although its record holds a greeting
C5_Witness ==
    /\ cpc = "done" /\ cur_end_reason = "customer-did-not-answer"
    /\ Contains(cur_transcript, "How may I help you today")
    /\ verdict.analysis.answered_by = "no_answer"

\* C6: for end reason customer-busy the classification is busy, not
\* qualified, high confidence, whatever the transcript.
C6_BusyRule ==
    (cpc = "done" /\ cur_end_reason = "customer-busy") =>
        /\ verdict.analysis.answered_by = "busy"
        /\ verdict.analysis.is_qualified = FALSE
        /\ verdict.analysis.confidence = "high"

\* the line was busy although the record holds a voicemail greeting
C6_Witness ==
    /\ cpc = "done" /\ cur_end_reason = "customer-busy"
    /\ Contains(cur_transcript, "Please leave a message")
    /\ verdict.analysis.answered_by = "busy"

\* C7: the disclaimer removal applied to its own output gives the same text.
C7_StripIdempotent ==
    spc = "twice" => strip_twice = strip_once

\* C8: when Tier 0 does not decide and what the other side said (the record
\* without the messages of the silent agent: its system prompt and its own
\* turns) is empty or shorter than 10 characters, the classification is
\* no_answer, qualified, high confidence, by Tier 1, and the reasoning API is
\* not asked.
C8_SilenceRule ==
    LET heard == SelectSeq(call.messages, LAMBDA m : m.role \notin {"system", "bot"})
    IN  (/\ cpc = "done"
         /\ cur_end_reason \notin {"customer-did-not-answer", "customer-busy"}
         /\ Len(Strip(transcript_text(heard))) < 10) =>
            /\ verdict.analysis.answered_by = "no_answer"
            /\ verdict.analysis.is_qualified = TRUE
            /\ verdict.analysis.confidence = "high"
            /\ verdict.tier = 1
            /\ grok = NoReply

\* C9: every classification _classify_response returns keeps the
\* qualification mapping: voicemail, no_answer, ivr_only and inconclusive are
\* qualified; answering_service and human are not.
C9_QualificationMapping ==
    cpc = "done" =>
        /\ verdict.analysis.answered_by \in {"voicemail", "no_answer", "ivr_only", "inconclusive"}
               => verdict.analysis.is_qualified = TRUE
        /\ verdict.analysis.answered_by \in {"answering_service", "human"}
               => verdict.analysis.is_qualified = FALSE

\* C10: when the keyword fallback decides and the cleaned transcript holds a
\* live-person phrase, the classification is answering_service, not qualified,
\* also when a voicemail phrase is in it.
C10_LiveBeforeVoicemail ==
    (/\ cpc = "done"
     /\ verdict.tier = 3
     /\ AnyIn(StripDisclaimers(Lower(user_transcript(cur_transcript))), live_person_words)) =>
        /\ verdict.analysis.answered_by = "answering_service"
        /\ verdict.analysis.is_qualified = FALSE

\* the fallback decided on a transcript with a greeting and a voicemail prompt
C10_Witness ==
    /\ cpc = "done"
    /\ verdict.tier = 3
    /\ Contains(cur_transcript, "How may I help you today")
    /\ Contains(cur_transcript, "Please leave a message after the tone")
    /\ verdict.analysis.answered_by = "answering_service"

\* C11, as stated: when the keyword fallback decides, every transcript that
\* holds "please leave a message after the tone" with end reason
\* exceeded-max-duration is classified voicemail, qualified.
C11_VoicemailPrompt ==
    (/\ cpc = "done" /\ verdict.tier = 3
     /\ cur_end_reason = "exceeded-max-duration"
     /\ Contains(Lower(cur_transcript), "please leave a message after the tone")) =>
        /\ verdict.analysis.answered_by = "voicemail"
        /\ verdict.analysis.is_qualified = TRUE

\* C11, amended: when the keyword fallback of vapi_caller decides, such a
\* transcript is classified voicemail, qualified, unless its cleaned text
\* holds a live-person phrase, and then it is answering_service, not
\* qualified; analyze_call of overnight_caller classifies every such
\* transcript voicemail, qualified.
C11_VoicemailUnlessLive ==
    /\ (/\ cpc = "done" /\ verdict.tier = 3
     /\ cur_end_reason = "exceeded-max-duration"
     /\ Contains(Lower(cur_transcript), "please leave a message after the tone")) =>
          IF AnyIn(StripDisclaimers(Lower(user_transcript(cur_transcript))),
                   live_person_words)
          THEN /\ verdict.analysis.answered_by = "answering_service"
               /\ verdict.analysis.is_qualified = FALSE
          ELSE /\ verdict.analysis.answered_by = "voicemail"
               /\ verdict.analysis.is_qualified = TRUE
    /\ (/\ cpc = "night_done"
        /\ night.end_reason = "exceeded-max-duration"
        /\ Contains(Lower(night.transcript), "please leave a message after the tone")) =>
          /\ night.result = "voicemail"
          /\ night.qualified = TRUE

\* the fallback decided on a voicemail prompt after a disclaimer, on a call
\* that ran to its maximum duration
C11_Witness ==
    /\ cpc = "done" /\ verdict.tier = 3
    /\ cur_end_reason = "exceeded-max-duration"
    /\ Contains(Lower(cur_transcript), "please leave a message after the tone")
    /\ Contains(cur_transcript, "This call may be recorded")
    /\ verdict.analysis.answered_by = "voicemail"

\* C12: in _wait_for_completion a failed status check (non-200, empty body,
\* malformed JSON, connection error, request timeout) neither ends the wait
\* nor raises: the poller sleeps and is back at the head of the loop.
C12_FailedCheckPollsAgain ==
    [][(/\ prog = "vapi" /\ d_pc = "waiting" /\ elapsed < POLL_TIMEOUT
        /\ last_poll'.kind = "failure")
           => (d_pc' = "waiting" /\ elapsed' > elapsed /\ cur' = cur)]_vars

\* the wait goes on after a connection error, more than a minute in
C12_Witness ==
    /\ prog = "vapi" /\ d_pc = "waiting"
    /\ last_poll = [kind |-> "failure", why |-> "connection_error"]
    /\ elapsed > 60

\* C13: when the ceiling of the wait elapses and no status check saw a
\* terminal status, make_call returns a record with status timeout, without
\* transcript and analysis, which is not an error record; the controller
\* appends it and goes on to the next target.
C13_TimeoutRecord ==
    /\ [](( /\ d_pc = "record"
            /\ dispatch_resp = "created"
            /\ elapsed >= (IF prog = "vapi" THEN POLL_TIMEOUT
                           ELSE NIGHT_POLLS * NIGHT_PAUSE)
            /\ ~(last_poll.kind = "status" /\ last_poll.status \in {"ended", "failed"}))
           => ( /\ cur.status = "timeout"
                /\ cur.status # "error"
                /\ cur.transcript = Missing
                /\ cur.analysis = NoAnalysis ))
    /\ [][(d_pc = "record" /\ cur.status = "timeout")
             => ( /\ d_results' = Append(d_results, cur)
                  /\ d_pc' = IF d_idx < Len(targets) THEN "dispatch" ELSE "final"
                  /\ d_idx' = IF d_idx < Len(targets) THEN d_idx + 1 ELSE d_idx )]_vars

\* the call to the first of two targets timed out, and the second is up
C13_Witness ==
    /\ prog = "vapi"
    /\ Len(targets) = 2 /\ d_idx = 2 /\ d_pc = "dispatch"
    /\ d_results[1].status = "timeout"

\* C14: make_call returns a completed record exactly when a status check
\* reported ended or failed; any other status, a missing one too, only puts
\* the poller to sleep for poll_interval and back at the head of the loop.
C14_TerminalStatuses ==
    /\ [](d_pc = "record" =>
            (cur.status = "completed"
                <=> (last_poll.kind = "status" /\ last_poll.status \in {"ended", "failed"})))
    /\ [][(/\ prog = "vapi" /\ d_pc = "waiting" /\ elapsed < POLL_TIMEOUT
           /\ last_poll'.kind = "status"
           /\ last_poll'.status \notin {"ended", "failed"})
              => ( /\ d_pc' = "waiting" /\ cur' = cur
                   /\ elapsed' = elapsed + poll_interval )]_vars

\* a completed record after status failed, more than half a minute in
C14_Witness ==
    /\ prog = "vapi" /\ d_pc = "record" /\ cur.status = "completed"
    /\ last_poll = [kind |-> "status", status |-> "failed"]
    /\ elapsed > SLOW_AFTER

\* C15: when the provider refuses the call request (not a rate limit),
\* make_call returns an error record with the provider's message, without a
\* status check or a classification; the controller records the target as
\* unknown, not qualified, and goes on to the next target.
C15_RefusedDispatch ==
    /\ []((d_pc = "record" /\ dispatch_resp = "rejected")
            => ( /\ cur.status = "error"
                 /\ cur.error = ProviderMessage("rejected")
                 /\ last_poll = NoPoll
                 /\ elapsed = 0
                 /\ cur.analysis = NoAnalysis
                 /\ AnsweredBy(cur) = "unknown"
                 /\ ~IsQualified(cur) ))
    /\ [][(d_pc = "record" /\ dispatch_resp = "rejected")
             => ( /\ d_results' = Append(d_results, cur)
                  /\ prog = "vapi" => d_stats' = [d_stats EXCEPT !.total = @ + 1,
                                                                   !.failed = @ + 1]
                  /\ d_pc' = IF d_idx < Len(targets) THEN "dispatch" ELSE "final"
                  /\ d_idx' = IF d_idx < Len(targets) THEN d_idx + 1 ELSE d_idx )]_vars

\* the call request for the first of two targets was refused, and the second
\* is up
C15_Witness ==
    /\ prog = "vapi"
    /\ Len(targets) = 2 /\ d_idx = 2 /\ d_pc = "dispatch"
    /\ d_results[1].status = "error"
    /\ d_results[1].error = "Bad Request"
    /\ d_stats.failed = 1

\* C16: make_call submits exactly one call request per invocation, except
\* that a rate-limited (429) request is tried again, so that a rate-limited
\* dispatch is reported as an error only after more than one request.
C16_OneRequestUnlessRateLimited ==
    LET requests == Cardinality({ k \in 1..Len(posted) : posted[k] = d_idx })
    IN  d_pc \in {"waiting", "record"} =>
            IF dispatch_resp = "rate_limited" THEN requests > 1 ELSE requests = 1

\* C17: calls are dispatched one after the other: the call requests go out
\* in target order, one per target; a request goes out only when every
\* earlier target has its result appended and the delay after it was taken;
\* the delay is taken after every call but the last.
C17_Sequential ==
    /\ [](/\ \A k \in 1..Len(posted) : posted[k] = k
          /\ Len(posted) - Len(d_results) \in {0, 1}
          /\ \A k \in 1..Len(slept) : slept[k] = k
          /\ Len(slept) < Len(targets)
          /\ d_pc \in {"final", "done"} => Len(slept) = Len(targets) - 1)
    /\ [][posted' # posted =>
             ( /\ Len(d_results) = Len(posted)
               /\ Len(slept) = Len(posted)
               /\ posted' = Append(posted, Len(d_results) + 1) )]_vars

\* the second call is in flight, after the first result and one delay
C17_Witness ==
    /\ prog = "vapi"
    /\ Len(targets) = 2 /\ d_pc = "waiting" /\ elapsed > 0
    /\ posted = << 1, 2 >>
    /\ Len(d_results) = 1
    /\ slept = << 1 >>

\* C18: no error on one target ends the run: neither run controller is
\* ended by an exception of make_call.
C18_NoFatalError ==
    d_pc # "crashed"

\* C19: every returned classification with answered_by unknown has
\* confidence low.
C19_UnknownIsLow ==
    (cpc = "done" /\ verdict.analysis.answered_by = "unknown") =>
        verdict.analysis.confidence = "low"

\* C20: a run of run_audit over a finite lead list reaches the final save,
\* whatever the provider does or fails to do.
C20_RunTerminates ==
    prog = "vapi" => <>(d_pc = "done")


\* C21: when the operator stops the run, between two targets or during a
\* call, every result gathered so far is in the newest file written.
C21_CancelLosesNothing ==
    [][(~halted /\ halted' /\ dialed' = dialed) => Persisted = Len(results)]_vars


\* C22: within one run no phone is dialed twice, also when the lead list
\* holds the same phone on more than one line.
C22_NoPhoneTwice ==
    \A j, k \in 1..Len(dialed) : j # k => dialed[j] # dialed[k]


\* C23: no record with status error or timeout is in a qualified-only file,
\* and the qualified counter of run_audit counts completed, classified
\* records only.
C23_QualifiedOnlyClassified ==
    /\ \A j \in 1..Len(saved) : \A k \in 1..Len(saved[j].qualified) :
          /\ saved[j].qualified[k].status \notin {"error", "timeout"}
          /\ saved[j].qualified[k].analysis # NoAnalysis
    /\ ctl = "vapi" =>
          stats.qualified =
              Cardinality({ k \in 1..Len(results) :
                              /\ results[k].status = "completed"
                              /\ results[k].analysis # NoAnalysis
                              /\ results[k].analysis.is_qualified })

\* a finished run of run_audit: the first call timed out, the second was not
\* answered; one qualified lead in the file and in the counter
C23_Witness ==
    /\ ctl = "vapi" /\ rpc = "done"
    /\ Len(results) = 2
    /\ results[1].status = "timeout"
    /\ results[2].status = "completed" /\ results[2].analysis.answered_by = "no_answer"
    /\ Len(saved) = 1 /\ Len(saved[1].qualified) = 1
    /\ stats.qualified = 1 /\ stats.failed = 1


\* C24: the tiers of _classify_response short-circuit in order: the
\* reasoning request goes out only when no verdict was reached, the end reason
\* is neither customer-did-not-answer nor customer-busy and the transcript
\* without the system lines has at least 10 characters, and the reasoning API
\* answers only such a request; the keyword fallback decides only after the
\* reasoning request failed; where Tier 0 or Tier 1 decided, the reasoning API
\* was not asked, and where it answered, its answer is the verdict; a verdict,
\* once reached, is never replaced.
C24_TiersShortCircuit ==
    /\ [](cpc = "tier2" =>
             /\ cur_end_reason \notin {"customer-did-not-answer", "customer-busy"}
             /\ Len(user_transcript(cur_transcript)) >= 10
             /\ verdict = NoDecision
             /\ grok = NoReply)
    /\ []((cpc = "done" /\ verdict.tier \in {0, 1}) => grok = NoReply)
    /\ []((cpc = "done" /\ verdict.tier = 3) => (grok # NoReply /\ grok.raises))
    /\ []((cpc = "done" /\ grok # NoReply /\ ~grok.raises) =>
             verdict = Returned(grok_classify(grok), 2))
    /\ [][/\ grok' # grok =>
                (cpc = "tier2" /\ UNCHANGED << cur_transcript, cur_end_reason >>)
          /\ verdict # NoDecision => verdict' = verdict]_vars

\* the reasoning API said human of a transcript in which the keyword fallback
\* would have found a voicemail, and its answer stands
C24_Witness ==
    /\ cpc = "done" /\ verdict.tier = 2
    /\ grok # NoReply /\ ~grok.raises
    /\ Contains(cur_transcript, "Please leave a message after the tone")
    /\ verdict.analysis.answered_by = "human"


\* C25: when run_audit has finished, the newest file of all results holds
\* every result of the run, in order, and the qualified-only file holds
\* exactly the results whose analysis says is_qualified, in the same order;
\* a run without results writes nothing.
C25_FinalPartition ==
    (ctl = "vapi" /\ rpc = "done") =>
        IF results = << >> THEN saved = << >>
        ELSE /\ saved # << >>
             /\ saved[Len(saved)].all = results
             /\ saved[Len(saved)].qualified =
                    SelectSeq(results, LAMBDA r : /\ r.analysis # NoAnalysis
                                                  /\ r.analysis.is_qualified = TRUE)

\* a finished run of run_audit: a person answered the first call and nobody
\* the second; two results in the file, the second one in the qualified file
C25_Witness ==
    /\ ctl = "vapi" /\ rpc = "done"
    /\ Len(results) = 2
    /\ results[1].status = "completed" /\ results[1].analysis.answered_by = "human"
    /\ results[2].status = "completed" /\ results[2].analysis.answered_by = "no_answer"
    /\ saved[Len(saved)].all = results
    /\ saved[Len(saved)].qualified = << results[2] >>


\* C26: the answered_by of every classification _classify_response returns is
\* one of no_answer, busy, voicemail, answering_service, human, ivr_only,
\* inconclusive, unknown, and its confidence one of high, medium, low.
C26_ResultEnums ==
    cpc = "done" =>
        /\ verdict.analysis.answered_by \in
               {"no_answer", "busy", "voicemail", "answering_service", "human",
                "ivr_only", "inconclusive", "unknown"}
        /\ verdict.analysis.confidence \in {"high", "medium", "low"}


\* C27: when the keyword fallback decides and the cleaned transcript (lower
\* case, disclaimers removed, stripped) holds neither a live-person nor a
\* voicemail phrase, the classification is inconclusive, qualified, low
\* confidence if the cleaned transcript is empty or shorter than 10
\* characters, and unknown, not qualified, low confidence otherwise.
C27_InconclusiveOrUnknown ==
    (cpc = "done" /\ verdict.tier = 3) =>
        \A cleaned \in { StripDisclaimers(Lower(user_transcript(cur_transcript))) } :
            (~AnyIn(cleaned, live_person_words) /\ ~AnyIn(cleaned, voicemail_words)) =>
                /\ verdict.analysis.confidence = "low"
                /\ IF Len(cleaned) < 10
                   THEN /\ verdict.analysis.answered_by = "inconclusive"
                        /\ verdict.analysis.is_qualified = TRUE
                   ELSE /\ verdict.analysis.answered_by = "unknown"
                        /\ verdict.analysis.is_qualified = FALSE

\* the fallback decided on a record in which only the recording disclaimer
\* was heard
C27_Witness ==
    /\ cpc = "done" /\ verdict.tier = 3
    /\ cur_transcript = "user: This call may be recorded\n"
    /\ verdict.analysis.answered_by = "inconclusive"
    /\ verdict.analysis.is_qualified = TRUE


\* C28: the counters of run_audit form a partition: total is the number of
\* results appended so far and the sum of qualified, answered, service and
\* failed; every appended result adds one to total and to exactly one of the
\* four.
C28_CountersPartition ==
    /\ [](ctl = "vapi" =>
            /\ stats.total = Len(results)
            /\ stats.total = stats.qualified + stats.answered + stats.service
                                 + stats.failed)
    /\ [][(ctl = "vapi" /\ Len(results') = Len(results) + 1) =>
             /\ stats'.total = stats.total + 1
             /\ Cardinality({ key \in {"qualified", "answered", "service", "failed"} :
                                stats'[key] = stats[key] + 1 }) = 1
             /\ Cardinality({ key \in {"qualified", "answered", "service", "failed"} :
                                stats'[key] = stats[key] }) = 3]_vars

\* two calls recorded by run_audit: a person answered one, an answering
\* service the other
C28_Witness ==
    /\ ctl = "vapi"
    /\ Len(results) = 2
    /\ stats = [total |-> 2, qualified |-> 0, answered |-> 1, service |-> 1,
                failed |-> 0]


\* C29: after every return of make_call to make_audit_call (a completed, an
\* error or a timeout record) one more row is committed to call_audits, with
\* a call_initiated_at, and the lead is out of status NEW, so that
\* get_leads_for_calling does not return it again.
C29_AuditRowAndStatus ==
    /\ audit_result \notin {NoRecord, Raised} =>
          /\ a_pc = "returned"
          /\ call_audits # << >>
          /\ call_audits[Len(call_audits)].lead_id = audit_calls[Len(audit_calls)]
          /\ lead_status[audit_calls[Len(audit_calls)]] \in {"qualified", "disqualified"}
    /\ Len(call_audits) <= Len(audit_calls)
    /\ \A r \in 1..Len(call_audits) : call_audits[r].call_initiated_at # Missing


\* C30: where _classify_response decides without an answer of the reasoning
\* API (Tier 0, Tier 1, or the keyword fallback), its is_qualified is the
\* qualified of analyze_call of overnight_caller on the same call record.
C30_ClassifiersAgree ==
    (cpc = "done" /\ verdict.tier \in {0, 1, 3}) =>
        verdict.analysis.is_qualified = analyze_call(call).qualified

=============================================================================
